---------------------------- MODULE Spec2Model ----------------------------
(***************************************************************************)
(* A model of mazamas-calscrape (src/main.py): the preference-file reader  *)
(* (read_not_interested, add_dates), the CSV parser (read_csv, is_past,    *)
(* is_full), the event filter (filter_events), the presenter               *)
(* (print_events_by_type, print_events) and the run that chains them       *)
(* (main).                                                                 *)
(*                                                                         *)
(* Text.  A Python string is modelled as a sequence of tokens, so that     *)
(* concatenation is \o, equality is equality and startswith is a prefix    *)
(* test.  A token is a record [k, s, y, m, d]: a literal piece of text     *)
(* (k = "lit", the text in s; names and numbers are spelled one character  *)
(* per token) or a run of digits of the shape dddd-dd-dd (k = "date", its  *)
(* three numbers in y, m, d) or of the shape dd-dd (k = "md").             *)
(***************************************************************************)
EXTENDS Integers, Sequences, FiniteSets, TLC

(***************************************************************************)
(* Bounds of the model.                                                    *)
(***************************************************************************)
\* the longest preference file, in lines
MaxLines == 3
\* the longest CSV, in data rows
MaxRows == 2
\* the longest event list handed to filter_events and to the presenter
MaxEvents == 3
\* add_dates is not stepped once its cursor is past this year
MaxYear == 2025

(***************************************************************************)
(* Tokens and strings.                                                     *)
(***************************************************************************)
Lit(s) == [k |-> "lit", s |-> s, y |-> 0, m |-> 0, d |-> 0]

DateTok(y, m, d) == [k |-> "date", s |-> "", y |-> y, m |-> m, d |-> d]

MDTok(m, d) == [k |-> "md", s |-> "", y |-> 0, m |-> m, d |-> d]

\* a one-token string
Str(s) == <<Lit(s)>>

\* the text dddd-dd-dd
DateStr(y, m, d) == <<DateTok(y, m, d)>>

EmptyStr == <<>>

\* Python's None, which no text equals
None == <<[k |-> "none", s |-> "", y |-> 0, m |-> 0, d |-> 0]>>

\* str.startswith
StartsWith(s, p) == Len(s) >= Len(p) /\ SubSeq(s, 1, Len(p)) = p

(***************************************************************************)
(* The calendar (datetime.strptime accepts exactly the real dates).        *)
(***************************************************************************)
IsLeap(y) == (y % 4 = 0 /\ y % 100 # 0) \/ y % 400 = 0

DaysInMonth(y, m) ==
    IF m \in {4, 6, 9, 11} THEN 30
    ELSE IF m = 2 THEN (IF IsLeap(y) THEN 29 ELSE 28)
    ELSE 31

\* t is a date token naming a real calendar day
IsRealDate(t) ==
    /\ t.k = "date"
    /\ t.y >= 1
    /\ t.m \in 1..12
    /\ t.d \in 1..DaysInMonth(t.y, t.m)

\* a < b on (year, month, day)
DateLT(a, b) ==
    \/ a.y < b.y
    \/ a.y = b.y /\ a.m < b.m
    \/ a.y = b.y /\ a.m = b.m /\ a.d < b.d

DateLE(a, b) == ~DateLT(b, a)


(***************************************************************************)
(* The state.                                                              *)
(***************************************************************************)
VARIABLES
    pc,              \* the place the run has reached
    out,             \* everything printed so far, in order
    \* read_not_interested and add_dates
    file_exists,     \* os.path.exists(NOT_INTERESTED_FILE)
    data,            \* the lines of the preference file: [indent, text]
    li,              \* the line the reader's loop is at
    activity_type,   \* the current heading, None before the first
    not_interested,  \* heading -> the event lines recorded under it
    bad_dates,       \* the blackout dates
    ad,              \* add_dates' locals: y1, m1, d1, y2, m2, d2
    \* read_csv
    csv,             \* the rows csv.reader yields, the header row first
    headers,         \* the header row, None before it is read
    ri,              \* the row read_csv's loop is at
    event_map,       \* key -> the activity name first seen with it
    events,          \* read_csv's result; main's event list
    \* filter_events
    fi,              \* the event filter_events' loop is at
    filtered,        \* filter_events' result
    \* print_events_by_type
    by_open,         \* the -reg flag
    activity_types,  \* the groups: [keys: types in insertion order, val]
    oi,              \* the position of the presenter's loops
    seen             \* the types printed by the priority loop

prefVars == <<file_exists, data, li, activity_type, not_interested, bad_dates, ad>>

csvVars == <<csv, headers, ri, event_map>>

filterVars == <<fi, filtered>>

presVars == <<by_open, activity_types, oi, seen>>

vars == <<pc, out, prefVars, csvVars, events, filterVars, presVars>>

\* the empty dict
EmptyDict == [k \in {} |-> <<>>]

(***************************************************************************)
(* read_not_interested: the preference file, line by line.                 *)
(***************************************************************************)
\* re: ^\d{4}-\d{2}-\d{2}$
single_date(text) == Len(text) = 1 /\ text[1].k = "date"

\* the texts \s*-\s* matches that the model writes
RangeSeps == {"-", " - "}

\* re: ^(\d{4}-\d{2}-\d{2})\s*-\s*(\d{4}-\d{2}-\d{2})$
date_range(text) ==
    /\ Len(text) = 3
    /\ text[1].k = "date"
    /\ text[2].k = "lit" /\ text[2].s \in RangeSeps
    /\ text[3].k = "date"

\* line.strip() is empty
IsBlankLine(line) == Len(line.text) = 0

\* line.startswith("#") after the strip
IsCommentLine(line) == Len(line.text) > 0 /\ line.text[1] = Lit("#")

\* the line the loop is at
CurLine == data[li]

InReadLoop == pc = "read_line" /\ li <= Len(data)

\* lines 219-220 and 225-229: a missing file is no preferences
ReadNotInterestedOpen ==
    /\ pc = "read_not_interested"
    /\ pc' = IF file_exists THEN "read_line" ELSE "prefs_done"
    /\ UNCHANGED <<out, prefVars, csvVars, events, filterVars, presVars>>

\* lines 234-241: blank lines and comments are skipped
SkipLine ==
    /\ InReadLoop
    /\ IsBlankLine(CurLine) \/ IsCommentLine(CurLine)
    /\ li' = li + 1
    /\ UNCHANGED <<pc, out, file_exists, data, activity_type, not_interested,
                   bad_dates, ad, csvVars, events, filterVars, presVars>>

\* lines 243-248: an indented line goes under the current heading
EventLine ==
    /\ InReadLoop
    /\ ~IsBlankLine(CurLine) /\ ~IsCommentLine(CurLine)
    /\ CurLine.indent
    /\ IF activity_type = None
       THEN /\ out' = Append(out, [kind |-> "no_type", text |-> CurLine.text])
            /\ UNCHANGED not_interested
       ELSE /\ not_interested' =
                [not_interested EXCEPT ![activity_type] = Append(@, CurLine.text)]
            /\ UNCHANGED out
    /\ li' = li + 1
    /\ UNCHANGED <<pc, file_exists, data, activity_type, bad_dates, ad,
                   csvVars, events, filterVars, presVars>>

\* lines 251-253: a single date is a blackout date
SingleDateLine ==
    /\ InReadLoop
    /\ ~IsBlankLine(CurLine) /\ ~IsCommentLine(CurLine)
    /\ ~CurLine.indent
    /\ single_date(CurLine.text)
    /\ bad_dates' = bad_dates \cup {CurLine.text}
    /\ li' = li + 1
    /\ UNCHANGED <<pc, out, file_exists, data, activity_type, not_interested, ad,
                   csvVars, events, filterVars, presVars>>

\* lines 255-259 and 269-270: a date range calls add_dates
DateRangeLine ==
    /\ InReadLoop
    /\ ~IsBlankLine(CurLine) /\ ~IsCommentLine(CurLine)
    /\ ~CurLine.indent
    /\ ~single_date(CurLine.text)
    /\ date_range(CurLine.text)
    /\ ad' = [y1 |-> CurLine.text[1].y, m1 |-> CurLine.text[1].m,
              d1 |-> CurLine.text[1].d,
              y2 |-> CurLine.text[3].y, m2 |-> CurLine.text[3].m,
              d2 |-> CurLine.text[3].d]
    /\ pc' = "add_dates"
    /\ UNCHANGED <<out, file_exists, data, li, activity_type, not_interested,
                   bad_dates, csvVars, events, filterVars, presVars>>

\* lines 277-283: the cursor after one day's increment
NextCursor(c) ==
    LET dn == c.d1 + 1
        d  == IF dn > 31 THEN 1 ELSE dn
        mn == IF dn > 31 THEN c.m1 + 1 ELSE c.m1
        m  == IF mn > 12 THEN 1 ELSE mn
        y  == IF mn > 12 THEN c.y1 + 1 ELSE c.y1
    IN  [c EXCEPT !.y1 = y, !.m1 = m, !.d1 = d]

\* line 284: the loop's only exit
LoopExit(c) == c.y1 = c.y2 /\ c.m1 = c.m2 /\ c.d1 > c.d2

\* lines 274-285: one turn of add_dates' loop (years of four digits, which
\* f"{y1}-{m1:02}-{d1:02}" writes as it read them)
AddDatesIter ==
    /\ pc = "add_dates"
    /\ ad.y1 <= MaxYear
    /\ bad_dates' = bad_dates \cup {DateStr(ad.y1, ad.m1, ad.d1)}
    /\ ad' = NextCursor(ad)
    /\ pc' = IF LoopExit(ad') THEN "after_add_dates" ELSE "add_dates"
    /\ UNCHANGED <<out, file_exists, data, li, activity_type, not_interested,
                   csvVars, events, filterVars, presVars>>

\* lines 261-263: the line becomes the current heading
SetHeading(text) ==
    /\ activity_type' = text
    /\ not_interested' = IF text \in DOMAIN not_interested
                         THEN not_interested
                         ELSE not_interested @@ (text :> <<>>)
    /\ li' = li + 1

\* lines 261-263, reached from line 259: add_dates has returned and nothing
\* leaves the loop body
AfterAddDates ==
    /\ pc = "after_add_dates"
    /\ SetHeading(CurLine.text)
    /\ pc' = "read_line"
    /\ UNCHANGED <<out, file_exists, data, bad_dates, ad,
                   csvVars, events, filterVars, presVars>>

\* lines 261-263: any other line is a heading
HeadingLine ==
    /\ InReadLoop
    /\ ~IsBlankLine(CurLine) /\ ~IsCommentLine(CurLine)
    /\ ~CurLine.indent
    /\ ~single_date(CurLine.text)
    /\ ~date_range(CurLine.text)
    /\ SetHeading(CurLine.text)
    /\ UNCHANGED <<pc, out, file_exists, data, bad_dates, ad,
                   csvVars, events, filterVars, presVars>>

\* line 265
ReadNotInterestedReturn ==
    /\ pc = "read_line"
    /\ li > Len(data)
    /\ pc' = "prefs_done"
    /\ UNCHANGED <<out, prefVars, csvVars, events, filterVars, presVars>>

NextPrefs ==
    \/ ReadNotInterestedOpen
    \/ SkipLine
    \/ EventLine
    \/ SingleDateLine
    \/ DateRangeLine
    \/ AddDatesIter
    \/ AfterAddDates
    \/ HeadingLine
    \/ ReadNotInterestedReturn

(***************************************************************************)
(* The preference files of the model.                                      *)
(***************************************************************************)
\* the date ranges written in the model's files, each S - E of real dates
\* with S <= E
PrefRanges ==
    { <<DateTok(2024, 1, 30), DateTok(2024, 2, 2)>>,
      <<DateTok(2024, 2, 28), DateTok(2024, 3, 2)>>,
      <<DateTok(2024, 3, 1), DateTok(2024, 3, 1)>>,
      <<DateTok(2024, 4, 29), DateTok(2024, 5, 1)>>,
      <<DateTok(2024, 12, 30), DateTok(2024, 12, 31)>>,
      <<DateTok(2024, 12, 30), DateTok(2025, 1, 2)>> }

PrefLine(indent, text) == [indent |-> indent, text |-> text]

\* "<startDate> : <leader>"
DismissKey(start_date, leader) == start_date \o Str(" : ") \o leader

PrefLines ==
    { PrefLine(FALSE, EmptyStr), PrefLine(TRUE, EmptyStr),
      PrefLine(FALSE, <<Lit("#"), Lit("x")>>),
      PrefLine(TRUE, <<Lit("#"), Lit("x")>>),
      PrefLine(FALSE, Str("Snowshoe")), PrefLine(FALSE, Str("Course")),
      PrefLine(TRUE, DismissKey(DateStr(2024, 3, 1), Str("Alice"))),
      PrefLine(TRUE, DismissKey(DateStr(2024, 3, 1), Str("Bob"))),
      PrefLine(TRUE, DateStr(2024, 3, 1)),
      PrefLine(FALSE, DateStr(2024, 3, 1)),
      PrefLine(FALSE, DateStr(2024, 2, 30)),
      PrefLine(FALSE, <<DateTok(2024, 3, 1), Lit("-"), DateTok(2024, 3, 2)>>) }
    \cup { PrefLine(FALSE, <<r[1], Lit(" - "), r[2]>>) : r \in PrefRanges }

\* the sequences over S of at most n elements
SeqsUpTo(S, n) == UNION { [1..k -> S] : k \in 0..n }

PrefsIdle ==
    /\ li = 1
    /\ activity_type = None
    /\ not_interested = EmptyDict
    /\ bad_dates = {}
    /\ ad = [y1 |-> 0, m1 |-> 0, d1 |-> 0, y2 |-> 0, m2 |-> 0, d2 |-> 0]

CsvIdle == headers = None /\ ri = 1 /\ event_map = EmptyDict

FilterIdle == fi = 1 /\ filtered = <<>>

PresIdle ==
    /\ activity_types = [keys |-> <<>>, val |-> EmptyDict]
    /\ oi = 1
    /\ seen = {}

\* read_not_interested on every file of at most MaxLines lines, and on none
InitPrefs ==
    /\ pc = "read_not_interested"
    /\ out = <<>>
    /\ file_exists \in BOOLEAN
    /\ data \in (IF file_exists THEN SeqsUpTo(PrefLines, MaxLines) ELSE {<<>>})
    /\ PrefsIdle
    /\ csv = <<>> /\ CsvIdle
    /\ events = <<>>
    /\ FilterIdle
    /\ by_open = FALSE /\ PresIdle

SpecPrefs == InitPrefs /\ [][NextPrefs]_vars

(***************************************************************************)
(* Claims about the preference file.                                       *)
(***************************************************************************)
\* the range line add_dates was called for
RangeStart == CurLine.text[1]

RangeEnd == CurLine.text[3]

\* add_dates' cursor, as a date
Cursor == DateTok(ad.y1, ad.m1, ad.d1)

\* the real calendar days of the closed interval [S, E], as texts
CalendarDays(S, E) ==
    { DateStr(y, m, d) : <<y, m, d>> \in
        { t \in (S.y..E.y) \X (1..12) \X (1..31) :
            /\ IsRealDate(DateTok(t[1], t[2], t[3]))
            /\ DateLE(S, DateTok(t[1], t[2], t[3]))
            /\ DateLE(DateTok(t[1], t[2], t[3]), E) } }

\* C1: for a range line S - E of real dates with S <= E, the dates add_dates
\* adds are exactly the real calendar days of [S, E]: the date each turn of
\* the loop is about to add is a real day of the interval, and when the call
\* has returned every day of the interval is in the blackout set.
C1_RangeAddsExactlyCalendarDays ==
    /\ pc = "add_dates"
        => /\ IsRealDate(Cursor)
           /\ DateLE(RangeStart, Cursor) /\ DateLE(Cursor, RangeEnd)
    /\ pc = "after_add_dates"
        => CalendarDays(RangeStart, RangeEnd) \subseteq bad_dates

\* C8: add_dates' loop exits.  Its cursor only moves forward and its exit
\* test holds only in the end date's month, so a loop head whose cursor is in
\* a later month is a loop that runs for ever: no loop head is there.
C8_AddDatesLoopExits ==
    pc = "add_dates"
        => \/ ad.y1 < ad.y2
           \/ ad.y1 = ad.y2 /\ ad.m1 <= ad.m2

\* the heading in force after the first i lines, as the claim has it: the
\* last non-indented line that is no blank, comment, date or date range
RECURSIVE HeadingAfter(_)
HeadingAfter(i) ==
    IF i = 0 THEN None
    ELSE IF \/ IsBlankLine(data[i]) \/ IsCommentLine(data[i])
            \/ data[i].indent
            \/ single_date(data[i].text) \/ date_range(data[i].text)
         THEN HeadingAfter(i - 1)
         ELSE data[i].text

\* the event lines among the first i lines that stand under heading h
RECURSIVE EventLinesUnder(_, _)
EventLinesUnder(h, i) ==
    IF i = 0 THEN <<>>
    ELSE IF /\ ~IsBlankLine(data[i]) /\ ~IsCommentLine(data[i])
            /\ data[i].indent
            /\ HeadingAfter(i - 1) = h
         THEN Append(EventLinesUnder(h, i - 1), data[i].text)
         ELSE EventLinesUnder(h, i - 1)

\* C9: a date or date-range line is never a heading and leaves the current
\* heading as it was: no key of the dismissed map is a date or a date range,
\* and after the load every event line is recorded under the last non-date
\* heading before it, or reported when there is none.
C9_DateLinesAreNoHeadings ==
    /\ \A h \in DOMAIN not_interested : ~single_date(h) /\ ~date_range(h)
    /\ pc = "prefs_done" =>
        /\ \A h \in DOMAIN not_interested :
              not_interested[h] = EventLinesUnder(h, Len(data))
        /\ [i \in 1..Len(out) |-> out[i].text] = EventLinesUnder(None, Len(data))

(***************************************************************************)
(* read_csv: the rows of the calendar, one by one.                         *)
(***************************************************************************)
IGNORE_FIELDS == {"Activity Notes", "Assistant"}

IGNORE_ACTIVITY_TYPES ==
    { Str("Field Session"), Str("Lecture"), Str("Meeting"), Str("Hike Route"),
      Str("Ski Mountaineering Route") }

\* the priority list with Snowshoe and Climb Route changing places
ACTIVITY_TYPE_ORDER_swapped ==
    << Str("Course"), Str("Hike Route"), Str("Climb Route"), Str("Snowshoe") >>

ACTIVITY_TYPE_ORDER ==
    << Str("Course"), Str("Hike Route"), Str("Snowshoe"), Str("Climb Route") >>

ACTIVITY_TYPE == "Activity Type"

ACTIVITY_NAME == "Activity Name"

START_DATE == "Start Date"

LEADER == "Leader"

PACE == "Pace"

GRADE == "Grade"

REG_CLOSE_DATE == "Reg. Close Date"

REG_OPEN_DATE == "Reg. Open Date"

NUMBER_OF_OPENINGS == "Number of openings"

\* the day of the run, rounded down to the day
TODAY == DateTok(2024, 3, 1)

\* the text s spelled one character per token
Chars(cs) == [i \in 1..Len(cs) |-> Lit(cs[i])]

\* the characters of a text spelled one per token
Spelled(s) == [i \in 1..Len(s) |-> s[i].s]

\* datetime.strptime(date_str, DATE_FORMAT) raises ValueError
strptime_raises(date_str) ==
    ~(Len(date_str) = 1 /\ IsRealDate(date_str[1]))

\* is_past raises
is_past_raises(date_str) ==
    date_str # None /\ date_str # EmptyStr /\ strptime_raises(date_str)

\* is_past with TODAY >= where the source has TODAY >
is_past_or_today(date_str) ==
    IF date_str = None \/ date_str = EmptyStr
    THEN FALSE
    ELSE DateLE(date_str[1], TODAY)

\* is_past, where it does not raise
is_past(date_str) ==
    IF date_str = None \/ date_str = EmptyStr
    THEN FALSE
    ELSE DateLT(date_str[1], TODAY)

DigitChars == {"0", "1", "2", "3", "4", "5", "6", "7", "8", "9"}

IsDigits(cs) == Len(cs) > 0 /\ \A i \in 1..Len(cs) : cs[i] \in DigitChars

\* str.strip on characters
RECURSIVE LStrip(_)
LStrip(cs) == IF Len(cs) > 0 /\ cs[1] = " " THEN LStrip(Tail(cs)) ELSE cs

RECURSIVE RStrip(_)
RStrip(cs) ==
    IF Len(cs) > 0 /\ cs[Len(cs)] = " "
    THEN RStrip(SubSeq(cs, 1, Len(cs) - 1))
    ELSE cs

\* the text without a leading sign
Unsigned(cs) == IF Len(cs) > 0 /\ cs[1] \in {"-", "+"} THEN Tail(cs) ELSE cs

\* digits, digits. , .digits or digits.digits
IsDecimal(cs) ==
    \/ IsDigits(cs)
    \/ \E p \in 1..Len(cs) :
          /\ cs[p] = "."
          /\ LET int == SubSeq(cs, 1, p - 1)
                 frac == SubSeq(cs, p + 1, Len(cs))
             IN  /\ int = <<>> \/ IsDigits(int)
                 /\ frac = <<>> \/ IsDigits(frac)
                 /\ int # <<>> \/ frac # <<>>

\* where the exponent mark of cs stands, 0 when there is none
ExpAt(cs) ==
    IF \E p \in 1..Len(cs) : cs[p] \in {"e", "E"}
    THEN CHOOSE p \in 1..Len(cs) :
            /\ cs[p] \in {"e", "E"}
            /\ \A q \in 1..(p - 1) : cs[q] \notin {"e", "E"}
    ELSE 0

\* the text before the exponent
Mantissa(cs) == IF ExpAt(cs) = 0 THEN cs ELSE SubSeq(cs, 1, ExpAt(cs) - 1)

\* a decimal, with an exponent or none
IsFloatNumber(cs) ==
    /\ IsDecimal(Mantissa(cs))
    /\ ExpAt(cs) # 0 => IsDigits(Unsigned(SubSeq(cs, ExpAt(cs) + 1, Len(cs))))

IsNan(cs) == cs = <<"n", "a", "n">>

IsInf(cs) == cs = <<"i", "n", "f">>

\* float(s) raises ValueError (of float's grammar: sign, digits, point,
\* exponent, inf and nan in lower case, blanks around)
float_raises(s) ==
    LET u == Unsigned(RStrip(LStrip(Spelled(s))))
    IN  ~(IsFloatNumber(u) \/ IsNan(u) \/ IsInf(u))

\* float(s) <= 0, where float(s) does not raise (exponents too small to
\* underflow): nan compares false, a number is <= 0 when it has a minus sign
\* or no digit but 0
float_le_zero(s) ==
    LET t == RStrip(LStrip(Spelled(s)))
        neg == Len(t) > 0 /\ t[1] = "-"
        u == Unsigned(t)
    IN  IF IsNan(u) THEN FALSE
        ELSE IF IsInf(u) THEN neg
        ELSE neg \/ \A i \in 1..Len(Mantissa(u)) : Mantissa(u)[i] \in {"0", "."}

\* an is_full that takes openings float() refuses for a number
is_full_never_raises(event) == FALSE

\* is_full raises
is_full_raises(event) ==
    /\ event[NUMBER_OF_OPENINGS] # None
    /\ event[NUMBER_OF_OPENINGS] # EmptyStr
    /\ float_raises(event[NUMBER_OF_OPENINGS])

\* is_full, where it does not raise
is_full(event) ==
    \/ event[NUMBER_OF_OPENINGS] = None
    \/ event[NUMBER_OF_OPENINGS] = EmptyStr
    \/ float_le_zero(event[NUMBER_OF_OPENINGS])

\* lines 119-123: the row as a dict, the ignored columns left out
MakeEvent(hs, row) ==
    [h \in {hs[i] : i \in 1..Len(row)} \ IGNORE_FIELDS |->
        row[CHOOSE i \in 1..Len(row) :
                hs[i] = h /\ \A j \in (i + 1)..Len(row) : hs[j] # h]]

\* the event of the row the loop is at
CurEvent == MakeEvent(headers, csv[ri])

\* line 127
EventKey(event) ==
    event[ACTIVITY_TYPE] \o Str(":") \o event[START_DATE] \o Str(":")
        \o event[LEADER]

InCsvLoop == pc = "csv_row" /\ ri <= Len(csv)

\* line 125
TypeIgnored(event) == event[ACTIVITY_TYPE] \in IGNORE_ACTIVITY_TYPES

\* line 128
AlertCondition(key, event) == key \in DOMAIN event_map

\* lines 127-133: the double-schedule alert, or the key's first name
NoteSchedule(event) ==
    LET key == EventKey(event)
    IN  IF AlertCondition(key, event)
        THEN /\ out' = Append(out, [kind |-> "alert", key |-> key,
                                    first |-> event_map[key],
                                    name |-> event[ACTIVITY_NAME]])
             /\ UNCHANGED event_map
        ELSE /\ event_map' = event_map @@ (key :> event[ACTIVITY_NAME])
             /\ UNCHANGED out

\* lines 57-62 and 104-114: the fetcher has returned the rows
ReadCsvFetch ==
    /\ pc = "read_csv"
    /\ out' = Append(out, [kind |-> "fetching"])
    /\ pc' = "csv_row"
    /\ UNCHANGED <<prefVars, csvVars, events, filterVars, presVars>>

\* lines 116-117
HeaderRow ==
    /\ InCsvLoop
    /\ headers = None
    /\ headers' = csv[ri]
    /\ ri' = ri + 1
    /\ UNCHANGED <<pc, out, prefVars, csv, event_map, events, filterVars, presVars>>

\* lines 119-126: a row of an ignored type
RowTypeIgnored ==
    /\ InCsvLoop
    /\ headers # None
    /\ TypeIgnored(CurEvent)
    /\ ri' = ri + 1
    /\ UNCHANGED <<pc, out, prefVars, csv, headers, event_map, events,
                   filterVars, presVars>>

\* lines 127-135: the close date is no date, strptime raises
RowCloseDateError ==
    /\ InCsvLoop
    /\ headers # None
    /\ ~TypeIgnored(CurEvent)
    /\ NoteSchedule(CurEvent)
    /\ is_past_raises(CurEvent[REG_CLOSE_DATE])
    /\ pc' = "error"
    /\ UNCHANGED <<prefVars, csv, headers, ri, events, filterVars, presVars>>

\* lines 127-136: registration has closed
RowClosed ==
    /\ InCsvLoop
    /\ headers # None
    /\ ~TypeIgnored(CurEvent)
    /\ NoteSchedule(CurEvent)
    /\ ~is_past_raises(CurEvent[REG_CLOSE_DATE])
    /\ is_past(CurEvent[REG_CLOSE_DATE])
    /\ ri' = ri + 1
    /\ UNCHANGED <<pc, prefVars, csv, headers, events, filterVars, presVars>>

\* lines 127-141 and 92: the openings are no number, float raises
RowOpeningsError ==
    /\ InCsvLoop
    /\ headers # None
    /\ ~TypeIgnored(CurEvent)
    /\ NoteSchedule(CurEvent)
    /\ ~is_past_raises(CurEvent[REG_CLOSE_DATE])
    /\ ~is_past(CurEvent[REG_CLOSE_DATE])
    /\ is_full_raises(CurEvent)
    /\ pc' = "error"
    /\ UNCHANGED <<prefVars, csv, headers, ri, events, filterVars, presVars>>

\* lines 127-142: no opening is left
RowFull ==
    /\ InCsvLoop
    /\ headers # None
    /\ ~TypeIgnored(CurEvent)
    /\ NoteSchedule(CurEvent)
    /\ ~is_past_raises(CurEvent[REG_CLOSE_DATE])
    /\ ~is_past(CurEvent[REG_CLOSE_DATE])
    /\ ~is_full_raises(CurEvent)
    /\ is_full(CurEvent)
    /\ ri' = ri + 1
    /\ UNCHANGED <<pc, prefVars, csv, headers, events, filterVars, presVars>>

\* line 144
IsBCEP(event) == StartsWith(event[ACTIVITY_NAME], Chars(<<"B", "C", "E", "P">>))

\* lines 127-145: a BCEP event
RowBCEP ==
    /\ InCsvLoop
    /\ headers # None
    /\ ~TypeIgnored(CurEvent)
    /\ NoteSchedule(CurEvent)
    /\ ~is_past_raises(CurEvent[REG_CLOSE_DATE])
    /\ ~is_past(CurEvent[REG_CLOSE_DATE])
    /\ ~is_full_raises(CurEvent)
    /\ ~is_full(CurEvent)
    /\ IsBCEP(CurEvent)
    /\ ri' = ri + 1
    /\ UNCHANGED <<pc, prefVars, csv, headers, events, filterVars, presVars>>

\* lines 127-146: the row is kept
RowKept ==
    /\ InCsvLoop
    /\ headers # None
    /\ ~TypeIgnored(CurEvent)
    /\ NoteSchedule(CurEvent)
    /\ ~is_past_raises(CurEvent[REG_CLOSE_DATE])
    /\ ~is_past(CurEvent[REG_CLOSE_DATE])
    /\ ~is_full_raises(CurEvent)
    /\ ~is_full(CurEvent)
    /\ ~IsBCEP(CurEvent)
    /\ events' = Append(events, CurEvent)
    /\ ri' = ri + 1
    /\ UNCHANGED <<pc, prefVars, csv, headers, filterVars, presVars>>

\* line 147
ReadCsvReturn ==
    /\ pc = "csv_row"
    /\ ri > Len(csv)
    /\ pc' = "csv_done"
    /\ UNCHANGED <<out, prefVars, csvVars, events, filterVars, presVars>>

NextCsv ==
    \/ ReadCsvFetch
    \/ HeaderRow
    \/ RowTypeIgnored
    \/ RowCloseDateError
    \/ RowClosed
    \/ RowOpeningsError
    \/ RowFull
    \/ RowBCEP
    \/ RowKept
    \/ ReadCsvReturn

(***************************************************************************)
(* The calendars of the model.                                             *)
(***************************************************************************)
\* the header row
Headers ==
    << ACTIVITY_TYPE, ACTIVITY_NAME, START_DATE, LEADER, PACE, GRADE,
       REG_CLOSE_DATE, REG_OPEN_DATE, NUMBER_OF_OPENINGS, "Activity Notes" >>

\* a data row, in the header's order
Row(type, name, start, leader, close, open, openings) ==
    << type, name, start, leader, EmptyStr, Str("A"), close, open, openings,
       Str("bring water") >>

CsvTypes == { Str("Course"), Str("Meeting"), Str("Snowshoe") }

CsvNames ==
    { Chars(<<"H">>), Chars(<<"B", "C", "E">>), Chars(<<"B", "C", "E", "P", "1">>) }

CsvLeaders == { Str("Alice"), Str("Bob") }

\* none, yesterday, today, and the 30th of February
CsvCloseDates ==
    { EmptyStr, DateStr(2024, 2, 29), DateStr(2024, 3, 1), DateStr(2024, 2, 30) }

CsvOpenings ==
    { EmptyStr, Chars(<<"0">>), Chars(<<"5">>), Chars(<<"0", ".", "5">>),
      Chars(<<"-", "1">>), Chars(<<"x">>), Chars(<<"n", "a", "n">>) }

\* the close dates and openings varied with the type
CsvOpeningsFew == { EmptyStr, Chars(<<"5">>), Chars(<<"x">>) }

CsvRows ==
    { Row(t, n, DateStr(2024, 3, 9), l, EmptyStr, EmptyStr, Chars(<<"5">>)) :
        <<t, n, l>> \in CsvTypes \X {Chars(<<"H">>), Chars(<<"B", "C", "E", "P", "1">>)}
                          \X CsvLeaders }
    \cup
    { Row(t, Chars(<<"H">>), DateStr(2024, 3, 9), Str("Alice"), c, EmptyStr, k) :
        <<t, c, k>> \in {Str("Course"), Str("Meeting")} \X CsvCloseDates
                          \X CsvOpeningsFew }
    \cup
    { Row(Str("Course"), n, DateStr(2024, 3, 9), Str("Alice"), EmptyStr, EmptyStr, k) :
        <<n, k>> \in CsvNames \X CsvOpenings }

\* the calendars: nothing at all, or the header and at most MaxRows rows
CsvFiles == {<<>>} \cup { <<Headers>> \o rows : rows \in SeqsUpTo(CsvRows, MaxRows) }

InitCsv ==
    /\ pc = "read_csv"
    /\ out = <<>>
    /\ file_exists = FALSE /\ data = <<>> /\ PrefsIdle
    /\ csv \in CsvFiles
    /\ CsvIdle
    /\ events = <<>>
    /\ FilterIdle
    /\ by_open = FALSE /\ PresIdle

SpecCsv == InitCsv /\ [][NextCsv]_vars

(***************************************************************************)
(* Claims about the parser.                                                *)
(***************************************************************************)
\* the data rows of the calendar, as events
DataEvents == [i \in 1..(Len(csv) - 1) |-> MakeEvent(Headers, csv[i + 1])]

\* an integer or a decimal: digits, with a minus sign or a point or both
IsPlainNumber(s) ==
    LET cs == Spelled(s)
        u == IF Len(cs) > 0 /\ cs[1] = "-" THEN Tail(cs) ELSE cs
    IN  \/ IsDigits(u)
        \/ \E p \in 2..(Len(u) - 1) :
              /\ u[p] = "."
              /\ IsDigits(SubSeq(u, 1, p - 1))
              /\ IsDigits(SubSeq(u, p + 1, Len(u)))

DigitValue(c) ==
    CASE c = "0" -> 0 [] c = "1" -> 1 [] c = "2" -> 2 [] c = "3" -> 3
      [] c = "4" -> 4 [] c = "5" -> 5 [] c = "6" -> 6 [] c = "7" -> 7
      [] c = "8" -> 8 [] c = "9" -> 9 [] OTHER -> 0

\* the digits of a plain number read as one integer, the point left out:
\* the number times a power of ten
RECURSIVE DigitsValue(_)
DigitsValue(cs) ==
    IF cs = <<>> THEN 0
    ELSE IF cs[Len(cs)] \in DigitChars
         THEN 10 * DigitsValue(SubSeq(cs, 1, Len(cs) - 1)) + DigitValue(cs[Len(cs)])
         ELSE DigitsValue(SubSeq(cs, 1, Len(cs) - 1))

\* a plain number greater than 0
IsPositiveNumber(s) ==
    /\ IsPlainNumber(s)
    /\ Spelled(s)[1] # "-"
    /\ DigitsValue(Spelled(s)) > 0

\* the fields the parser reads are well formed: a close date that is a real
\* date or empty, openings that are a plain number or empty
WellFormed(event) ==
    /\ \/ event[REG_CLOSE_DATE] = EmptyStr
       \/ Len(event[REG_CLOSE_DATE]) = 1 /\ IsRealDate(event[REG_CLOSE_DATE][1])
    /\ event[NUMBER_OF_OPENINGS] = EmptyStr \/ IsPlainNumber(event[NUMBER_OF_OPENINGS])

\* the rows the claim keeps
Survives(event) ==
    /\ event[ACTIVITY_TYPE] \notin IGNORE_ACTIVITY_TYPES
    /\ \/ event[REG_CLOSE_DATE] = EmptyStr
       \/ ~DateLT(event[REG_CLOSE_DATE][1], TODAY)
    /\ event[NUMBER_OF_OPENINGS] # EmptyStr
    /\ IsPositiveNumber(event[NUMBER_OF_OPENINGS])
    /\ ~StartsWith(event[ACTIVITY_NAME], Chars(<<"B", "C", "E", "P">>))

AllWellFormed == \A i \in 1..Len(DataEvents) : WellFormed(DataEvents[i])

\* C3: when every data row is well formed, read_csv returns exactly the rows,
\* in row order, whose type is not ignored, whose registration has not
\* closed before today, whose openings are a number > 0 and whose name does
\* not start with BCEP.
C3_ParserKeepsExactlySurvivors ==
    (pc = "csv_done" /\ AllWellFormed)
        => events = SelectSeq(DataEvents, Survives)

\* a closed row with openings is dropped and a later row, of a key seen
\* before, is kept
C3_Witness ==
    /\ pc = "csv_done" /\ AllWellFormed
    /\ Len(DataEvents) = 2
    /\ DataEvents[1][REG_CLOSE_DATE] = DateStr(2024, 2, 29)
    /\ DataEvents[1][NUMBER_OF_OPENINGS] = Chars(<<"5">>)
    /\ DataEvents[1][ACTIVITY_TYPE] = Str("Course")
    /\ EventKey(DataEvents[1]) = EventKey(DataEvents[2])
    /\ events = <<DataEvents[2]>>

\* the alerts printed so far, each as <<key, name>>
RECURSIVE AlertsOf(_)
AlertsOf(o) ==
    IF o = <<>> THEN <<>>
    ELSE IF o[Len(o)].kind = "alert"
         THEN Append(AlertsOf(SubSeq(o, 1, Len(o) - 1)),
                     <<o[Len(o)].key, o[Len(o)].name>>)
         ELSE AlertsOf(SubSeq(o, 1, Len(o) - 1))

\* row i is not type-excluded and an earlier row that is not type-excluded
\* has its key and another name
DoubleBooked(i) ==
    /\ DataEvents[i][ACTIVITY_TYPE] \notin IGNORE_ACTIVITY_TYPES
    /\ \E j \in 1..(i - 1) :
          /\ DataEvents[j][ACTIVITY_TYPE] \notin IGNORE_ACTIVITY_TYPES
          /\ EventKey(DataEvents[j]) = EventKey(DataEvents[i])
          /\ DataEvents[j][ACTIVITY_NAME] # DataEvents[i][ACTIVITY_NAME]

\* the alerts the claim expects of the first n data rows
RECURSIVE ExpectedAlerts(_)
ExpectedAlerts(n) ==
    IF n = 0 THEN <<>>
    ELSE IF DoubleBooked(n)
         THEN Append(ExpectedAlerts(n - 1),
                     <<EventKey(DataEvents[n]), DataEvents[n][ACTIVITY_NAME]>>)
         ELSE ExpectedAlerts(n - 1)

\* C5: the duplicate-schedule diagnostic is printed for a row exactly when
\* the row is not type-excluded and its key was seen on an earlier such row
\* with a different activity name.
C5_AlertOnlyForDifferentName ==
    pc = "csv_done" => AlertsOf(out) = ExpectedAlerts(Len(DataEvents))

\* the openings are there and float() does not take them
OpeningsUnparsable(event) ==
    /\ event[NUMBER_OF_OPENINGS] # EmptyStr
    /\ float_raises(event[NUMBER_OF_OPENINGS])

\* the close date is no real date before today
NotClosed(event) ==
    \/ event[REG_CLOSE_DATE] = EmptyStr
    \/ strptime_raises(event[REG_CLOSE_DATE])
    \/ ~DateLT(event[REG_CLOSE_DATE][1], TODAY)

InFilterLoop == pc = "filter_events" /\ fi <= Len(events)

\* line 294
OnBadDate(event) == event[START_DATE] \in bad_dates

\* the dismissal test without its look at the event's own type
DismissedUnderAnyType(event) ==
    \E h \in DOMAIN not_interested :
        \E i \in 1..Len(not_interested[h]) :
            not_interested[h][i] = event[START_DATE] \o Str(" : ") \o event[LEADER]

\* lines 299-300
Dismissed(event) ==
    /\ event[ACTIVITY_TYPE] \in DOMAIN not_interested
    /\ \E i \in 1..Len(not_interested[event[ACTIVITY_TYPE]]) :
          not_interested[event[ACTIVITY_TYPE]][i]
              = event[START_DATE] \o Str(" : ") \o event[LEADER]

\* lines 290-296: the event starts on a blackout date
FilterBadDate ==
    /\ InFilterLoop
    /\ OnBadDate(events[fi])
    /\ fi' = fi + 1
    /\ UNCHANGED <<pc, out, prefVars, csvVars, events, filtered, presVars>>

\* lines 298-302: the event is dismissed under its own type
FilterDismissed ==
    /\ InFilterLoop
    /\ ~OnBadDate(events[fi])
    /\ Dismissed(events[fi])
    /\ fi' = fi + 1
    /\ UNCHANGED <<pc, out, prefVars, csvVars, events, filtered, presVars>>

\* line 304
FilterKeep ==
    /\ InFilterLoop
    /\ ~OnBadDate(events[fi])
    /\ ~Dismissed(events[fi])
    /\ filtered' = Append(filtered, events[fi])
    /\ fi' = fi + 1
    /\ UNCHANGED <<pc, out, prefVars, csvVars, events, presVars>>

\* line 306
FilterReturn ==
    /\ pc = "filter_events"
    /\ fi > Len(events)
    /\ pc' = "filter_done"
    /\ UNCHANGED <<out, prefVars, csvVars, events, filterVars, presVars>>

NextFilter ==
    \/ FilterBadDate
    \/ FilterDismissed
    \/ FilterKeep
    \/ FilterReturn

(***************************************************************************)
(* print_events_by_type and print_events.                                  *)
(***************************************************************************)
\* lines 168-172: the event joins its type's group, a new type a new group
GroupEvent ==
    /\ pc = "group"
    /\ oi <= Len(events)
    /\ LET event == events[oi]
           type == event[ACTIVITY_TYPE]
       IN  activity_types' =
              IF type \in DOMAIN activity_types.val
              THEN [activity_types EXCEPT !.val[type] = Append(@, event)]
              ELSE [keys |-> Append(activity_types.keys, type),
                    val |-> activity_types.val @@ (type :> <<event>>)]
    /\ oi' = oi + 1
    /\ UNCHANGED <<pc, out, prefVars, csvVars, events, filterVars, by_open, seen>>

\* lines 174-176: the groups are made, the priority loop starts
GroupDone ==
    /\ pc = "group"
    /\ oi > Len(events)
    /\ pc' = "print_order"
    /\ oi' = 1
    /\ UNCHANGED <<out, prefVars, csvVars, events, filterVars, by_open,
                   activity_types, seen>>

\* line 196: e1's sort key f"{open} {start}" is below e2's; a blank sorts
\* before a digit, and dates of one width sort as their numbers
SortKeyLT(e1, e2) ==
    LET o1 == e1[REG_OPEN_DATE]
        o2 == e2[REG_OPEN_DATE]
    IN  IF o1 = EmptyStr /\ o2 = EmptyStr
        THEN DateLT(e1[START_DATE][1], e2[START_DATE][1])
        ELSE IF o1 = EmptyStr THEN TRUE
        ELSE IF o2 = EmptyStr THEN FALSE
        ELSE \/ DateLT(o1[1], o2[1])
             \/ o1 = o2 /\ DateLT(e1[START_DATE][1], e2[START_DATE][1])

\* e put into the sorted list evs after every element not above it
RECURSIVE InsertSorted(_, _)
InsertSorted(evs, e) ==
    IF evs = <<>> THEN <<e>>
    ELSE IF SortKeyLT(e, evs[Len(evs)])
         THEN Append(InsertSorted(SubSeq(evs, 1, Len(evs) - 1), e), evs[Len(evs)])
         ELSE Append(evs, e)

\* line 196: list.sort, which is stable
RECURSIVE Sorted(_)
Sorted(evs) ==
    IF evs = <<>> THEN <<>>
    ELSE InsertSorted(Sorted(SubSeq(evs, 1, Len(evs) - 1)), evs[Len(evs)])

\* lines 195-196: the group as print_events goes through it
PrintOrder(evs) == IF by_open THEN Sorted(evs) ELSE evs

\* line 202: the test that picks the month-day fragment
ShowsOpenDate(date_str) == ~is_past(date_str)

\* lines 199-203
OpenReg(event) ==
    IF event[REG_OPEN_DATE] = None \/ event[REG_OPEN_DATE] = EmptyStr
    THEN Str("  N/O  ")
    ELSE IF ShowsOpenDate(event[REG_OPEN_DATE])
         THEN Str("- ") \o <<MDTok(event[REG_OPEN_DATE][1].m, event[REG_OPEN_DATE][1].d)>>
         ELSE Str("       ")

\* lines 204-206
PaceOf(event) ==
    IF event[PACE] = None \/ event[PACE] = EmptyStr THEN Str("?") ELSE event[PACE]

\* line 208: the line printed for an event
EventOut(event) ==
    [kind |-> "event", ev |-> event, open_reg |-> OpenReg(event),
     pace |-> PaceOf(event)]

\* line 202: is_past raises on the event's open date
PrintRaises(event) == is_past_raises(event[REG_OPEN_DATE])

\* the events of evs before the first one print_events raises on
RECURSIVE PrintedPrefix(_)
PrintedPrefix(evs) ==
    IF evs = <<>> \/ PrintRaises(evs[1]) THEN <<>>
    ELSE <<evs[1]>> \o PrintedPrefix(Tail(evs))

\* lines 180-182 and 188-190: the heading, the group's lines and a blank
\* line, or the heading and the lines before the one that raises
PrintGroup(type) ==
    LET evs == PrintOrder(activity_types.val[type])
        done == PrintedPrefix(evs)
        lines == [i \in 1..Len(done) |-> EventOut(done[i])]
    IN  /\ activity_types' = [activity_types EXCEPT !.val[type] = evs]
        /\ IF Len(done) = Len(evs)
           THEN /\ out' = out \o <<[kind |-> "type", text |-> type]>> \o lines
                             \o <<[kind |-> "blank"]>>
                /\ UNCHANGED pc
           ELSE /\ out' = out \o <<[kind |-> "type", text |-> type]>> \o lines
                /\ pc' = "error"

\* lines 176-178: a priority type with no event
OrderSkip ==
    /\ pc = "print_order"
    /\ oi <= Len(ACTIVITY_TYPE_ORDER)
    /\ ACTIVITY_TYPE_ORDER[oi] \notin DOMAIN activity_types.val
    /\ oi' = oi + 1
    /\ UNCHANGED <<pc, out, prefVars, csvVars, events, filterVars, by_open,
                   activity_types, seen>>

\* lines 176-182: a priority type with events
OrderPrint ==
    /\ pc = "print_order"
    /\ oi <= Len(ACTIVITY_TYPE_ORDER)
    /\ ACTIVITY_TYPE_ORDER[oi] \in DOMAIN activity_types.val
    /\ seen' = seen \cup {ACTIVITY_TYPE_ORDER[oi]}
    /\ PrintGroup(ACTIVITY_TYPE_ORDER[oi])
    /\ oi' = oi + 1
    /\ UNCHANGED <<prefVars, csvVars, events, filterVars, by_open>>

\* lines 184-185: the stragglers' loop starts
OrderDone ==
    /\ pc = "print_order"
    /\ oi > Len(ACTIVITY_TYPE_ORDER)
    /\ pc' = "print_rest"
    /\ oi' = 1
    /\ UNCHANGED <<out, prefVars, csvVars, events, filterVars, by_open,
                   activity_types, seen>>

\* lines 185-187: a type the priority loop has printed
RestSkip ==
    /\ pc = "print_rest"
    /\ oi <= Len(activity_types.keys)
    /\ activity_types.keys[oi] \in seen
    /\ oi' = oi + 1
    /\ UNCHANGED <<pc, out, prefVars, csvVars, events, filterVars, by_open,
                   activity_types, seen>>

\* lines 185-190: a straggler
RestPrint ==
    /\ pc = "print_rest"
    /\ oi <= Len(activity_types.keys)
    /\ activity_types.keys[oi] \notin seen
    /\ PrintGroup(activity_types.keys[oi])
    /\ oi' = oi + 1
    /\ UNCHANGED <<prefVars, csvVars, events, filterVars, by_open, seen>>

\* the end of print_events_by_type
RestDone ==
    /\ pc = "print_rest"
    /\ oi > Len(activity_types.keys)
    /\ pc' = "print_done"
    /\ UNCHANGED <<out, prefVars, csvVars, events, filterVars, presVars>>

NextPresent ==
    \/ GroupEvent
    \/ GroupDone
    \/ OrderSkip
    \/ OrderPrint
    \/ OrderDone
    \/ RestSkip
    \/ RestPrint
    \/ RestDone

(***************************************************************************)
(* The inputs of the filter and of the presenter.                          *)
(***************************************************************************)
\* an event as read_csv makes it
Event(type, start, leader, open) ==
    MakeEvent(Headers, Row(type, Chars(<<"H">>), start, leader, EmptyStr, open,
                           Chars(<<"5">>)))

FilterEvents ==
    { Event(t, DateStr(2024, 3, d), l, EmptyStr) :
        <<t, d, l>> \in {Str("Snowshoe"), Str("Course")} \X {1, 2} \X CsvLeaders }

KeyAlice == DismissKey(DateStr(2024, 3, 1), Str("Alice"))

KeyBob == DismissKey(DateStr(2024, 3, 1), Str("Bob"))

\* a dict with the heading h, or without it
Under(h, present, lines) == IF present THEN (h :> lines) ELSE EmptyDict

FilterDicts ==
    { Under(Str("Snowshoe"), sp, sl) @@ Under(Str("Course"), cp, <<KeyAlice>>) :
        <<sp, sl, cp>> \in BOOLEAN \X {<<>>, <<KeyAlice>>, <<KeyAlice, KeyBob>>}
                             \X BOOLEAN }

FilterBadDates == { {}, {DateStr(2024, 3, 1)}, {DateStr(2024, 3, 2)} }

\* filter_events on every list of at most MaxEvents events
InitFilter ==
    /\ pc = "filter_events"
    /\ out = <<>>
    /\ file_exists = TRUE /\ data = <<>> /\ li = 1 /\ activity_type = None
    /\ ad = [y1 |-> 0, m1 |-> 0, d1 |-> 0, y2 |-> 0, m2 |-> 0, d2 |-> 0]
    /\ not_interested \in FilterDicts
    /\ bad_dates \in FilterBadDates
    /\ csv = <<>> /\ CsvIdle
    /\ events \in SeqsUpTo(FilterEvents, MaxEvents)
    /\ FilterIdle
    /\ by_open = FALSE /\ PresIdle

SpecFilter == InitFilter /\ [][NextFilter]_vars

PresTypes ==
    { Str("Course"), Str("Hike Route"), Str("Snowshoe"), Str("Climb Route"),
      Str("Other"), Str("Partner Event") }

\* every type; a course that opened yesterday, opens today, opens tomorrow,
\* and one whose open date is the 30th of February; others to sort
PresEvents ==
    { Event(t, DateStr(2024, 3, 9), Str("Alice"), EmptyStr) : t \in PresTypes }
    \cup
    { Event(Str("Course"), DateStr(2024, 3, 9), Str("Alice"), o) :
        o \in { DateStr(2024, 2, 29), DateStr(2024, 3, 1), DateStr(2024, 3, 2),
                DateStr(2024, 2, 30) } }
    \cup
    { Event(Str("Other"), DateStr(2024, 3, 8), Str("Alice"), DateStr(2024, 3, 2)),
      Event(Str("Other"), DateStr(2024, 3, 8), Str("Alice"), EmptyStr) }

\* print_events_by_type on every list of at most MaxEvents events
InitPresent ==
    /\ pc = "group"
    /\ out = <<>>
    /\ file_exists = FALSE /\ data = <<>> /\ PrefsIdle
    /\ csv = <<>> /\ CsvIdle
    /\ events \in SeqsUpTo(PresEvents, MaxEvents)
    /\ FilterIdle
    /\ by_open \in BOOLEAN
    /\ PresIdle

SpecPresent == InitPresent /\ [][NextPresent]_vars

(***************************************************************************)
(* Claims about the filter.                                                *)
(***************************************************************************)
\* the event is neither on a blackout date nor dismissed under its own type
C4_Retained(event) ==
    /\ event[START_DATE] \notin bad_dates
    /\ \/ event[ACTIVITY_TYPE] \notin DOMAIN not_interested
       \/ \A i \in 1..Len(not_interested[event[ACTIVITY_TYPE]]) :
             not_interested[event[ACTIVITY_TYPE]][i]
                 # DismissKey(event[START_DATE], event[LEADER])

\* C4: filter_events returns exactly the events, in their order, that are
\* neither on a blackout date nor dismissed, by "<startDate> : <leader>",
\* under their own activity type; and no step of it changes the event list,
\* the dismissed map or the blackout set.
C4_FilterKeepsExactlyRetained ==
    /\ [](pc = "filter_done" => filtered = SelectSeq(events, C4_Retained))
    /\ [][UNCHANGED <<events, not_interested, bad_dates>>]_vars

\* Alice's snowshoe is dismissed, Bob's is kept, and Alice's course, whose
\* key stands under Snowshoe alone, is kept
C4_Witness ==
    /\ pc = "filter_done"
    /\ events = << Event(Str("Snowshoe"), DateStr(2024, 3, 1), Str("Alice"), EmptyStr),
                   Event(Str("Snowshoe"), DateStr(2024, 3, 1), Str("Bob"), EmptyStr),
                   Event(Str("Course"), DateStr(2024, 3, 1), Str("Alice"), EmptyStr) >>
    /\ not_interested = (Str("Snowshoe") :> <<KeyAlice>>)
    /\ bad_dates = {DateStr(2024, 3, 2)}
    /\ filtered = <<events[2], events[3]>>

(***************************************************************************)
(* Claims about the presenter.                                             *)
(***************************************************************************)
\* the group headings printed, in order
RECURSIVE HeadingsOf(_)
HeadingsOf(o) ==
    IF o = <<>> THEN <<>>
    ELSE IF o[Len(o)].kind = "type"
         THEN Append(HeadingsOf(SubSeq(o, 1, Len(o) - 1)), o[Len(o)].text)
         ELSE HeadingsOf(SubSeq(o, 1, Len(o) - 1))

\* the heading the i-th printed line stands under
RECURSIVE GroupOfLine(_)
GroupOfLine(i) ==
    IF i = 0 THEN None
    ELSE IF out[i].kind = "type" THEN out[i].text
    ELSE GroupOfLine(i - 1)

\* the types of the first n events, each once, in the order of its first event
RECURSIVE TypesInOrder(_)
TypesInOrder(n) ==
    IF n = 0 THEN <<>>
    ELSE IF \E j \in 1..(n - 1) : events[j][ACTIVITY_TYPE] = events[n][ACTIVITY_TYPE]
         THEN TypesInOrder(n - 1)
         ELSE Append(TypesInOrder(n - 1), events[n][ACTIVITY_TYPE])

\* the priority list, as the claim writes it
C7_Priority ==
    << Str("Course"), Str("Hike Route"), Str("Snowshoe"), Str("Climb Route") >>

C7_IsPresent(type) == \E i \in 1..Len(events) : events[i][ACTIVITY_TYPE] = type

C7_IsStraggler(type) == \A i \in 1..Len(C7_Priority) : C7_Priority[i] # type

\* how many times e stands in the list evs
Count(e, evs) == Cardinality({ i \in 1..Len(evs) : evs[i] = e })

\* how many lines of the output print e
Printed(e) ==
    Cardinality({ i \in 1..Len(out) : out[i].kind = "event" /\ out[i].ev = e })

\* C7: the headings printed are the priority types that have an event, in
\* the priority list's order, then every other type present in the order of
\* its first event; every event is printed once, under the heading of its
\* own type.  (The presenter ends in an error only on an event whose
\* registration-open date is no date.)
C7_GroupsInPriorityThenEncounterOrder ==
    /\ pc = "error" => \E i \in 1..Len(events) : PrintRaises(events[i])
    /\ pc = "print_done" =>
        /\ HeadingsOf(out) =
              SelectSeq(C7_Priority, C7_IsPresent)
                  \o SelectSeq(TypesInOrder(Len(events)), C7_IsStraggler)
        /\ \A i \in 1..Len(events) : Printed(events[i]) = Count(events[i], events)
        /\ \A i \in 1..Len(out) :
              out[i].kind = "event" => GroupOfLine(i) = out[i].ev[ACTIVITY_TYPE]

\* a partner event, a climb and a course come out as Course, Climb Route,
\* Partner Event
C7_Witness ==
    /\ pc = "print_done"
    /\ Len(events) = 3
    /\ events[1][ACTIVITY_TYPE] = Str("Partner Event")
    /\ events[2][ACTIVITY_TYPE] = Str("Climb Route")
    /\ events[3][ACTIVITY_TYPE] = Str("Course")
    /\ HeadingsOf(out) = << Str("Course"), Str("Climb Route"), Str("Partner Event") >>

\* the indicator the claim gives an event
C10_Indicator(event) ==
    IF event[REG_OPEN_DATE] = EmptyStr
    THEN Str("  N/O  ")
    ELSE IF DateLT(TODAY, event[REG_OPEN_DATE][1])
         THEN Str("- ") \o <<MDTok(event[REG_OPEN_DATE][1].m, event[REG_OPEN_DATE][1].d)>>
         ELSE Str("       ")

\* C10: an event is printed with N/O when it has no open date, with the
\* month and day of its open date when that date is after today, and with a
\* blank otherwise, the day of opening included.
C10_OpenDateShownOnlyIfFuture ==
    \A i \in 1..Len(out) :
        out[i].kind = "event" => out[i].open_reg = C10_Indicator(out[i].ev)

(***************************************************************************)
(* main: the whole run.                                                    *)
(***************************************************************************)
\* lines 312-315: the preferences are read, the calendar is next
MainReadCsv ==
    /\ pc = "prefs_done"
    /\ pc' = "read_csv"
    /\ UNCHANGED <<out, prefVars, csvVars, events, filterVars, presVars>>

\* line 319
FilterWanted == Cardinality(DOMAIN not_interested) > 0

\* lines 319-320: filter_events is called
MainFilter ==
    /\ pc = "csv_done"
    /\ FilterWanted
    /\ pc' = "filter_events"
    /\ UNCHANGED <<out, prefVars, csvVars, events, filterVars, presVars>>

\* lines 319 and 323: filter_events is not called
MainNoFilter ==
    /\ pc = "csv_done"
    /\ ~FilterWanted
    /\ pc' = "group"
    /\ UNCHANGED <<out, prefVars, csvVars, events, filterVars, presVars>>

\* lines 320-323: the filtered list replaces the events
MainFiltered ==
    /\ pc = "filter_done"
    /\ events' = filtered
    /\ out' = Append(out, [kind |-> "blank"])
    /\ pc' = "group"
    /\ UNCHANGED <<prefVars, csvVars, filterVars, presVars>>

\* line 323: print_events_by_type has returned
MainReturn ==
    /\ pc = "print_done"
    /\ pc' = "done"
    /\ UNCHANGED <<out, prefVars, csvVars, events, filterVars, presVars>>

\* the preference files of the whole run
MainPrefs ==
    { <<PrefLine(FALSE, DateStr(2024, 3, 9))>>,
      <<PrefLine(FALSE, Str("Snowshoe")),
        PrefLine(TRUE, DismissKey(DateStr(2024, 3, 9), Str("Alice")))>>,
      <<PrefLine(FALSE, Str("Snowshoe")), PrefLine(FALSE, DateStr(2024, 3, 9))>>,
      <<PrefLine(FALSE, <<DateTok(2024, 3, 9), Lit(" - "), DateTok(2024, 3, 10)>>)>>,
      <<PrefLine(FALSE, <<Lit("#"), Lit("x")>>),
        PrefLine(TRUE, DismissKey(DateStr(2024, 3, 9), Str("Alice")))>> }

\* the rows of the whole run: three that are kept, and one for each way a
\* row is dropped or ends the run
MainRows ==
    { Row(Str("Snowshoe"), Chars(<<"H">>), DateStr(2024, 3, 9), Str("Alice"),
          EmptyStr, EmptyStr, Chars(<<"5">>)),
      Row(Str("Snowshoe"), Chars(<<"H">>), DateStr(2024, 3, 9), Str("Bob"),
          EmptyStr, EmptyStr, Chars(<<"5">>)),
      Row(Str("Other"), Chars(<<"H">>), DateStr(2024, 3, 11), Str("Alice"),
          EmptyStr, DateStr(2024, 3, 2), Chars(<<"5">>)),
      Row(Str("Other"), Chars(<<"H">>), DateStr(2024, 3, 11), Str("Alice"),
          EmptyStr, DateStr(2024, 2, 30), Chars(<<"5">>)),
      Row(Str("Meeting"), Chars(<<"H">>), DateStr(2024, 3, 9), Str("Alice"),
          EmptyStr, EmptyStr, Chars(<<"5">>)),
      Row(Str("Course"), Chars(<<"H">>), DateStr(2024, 3, 9), Str("Alice"),
          DateStr(2024, 2, 30), EmptyStr, Chars(<<"5">>)),
      Row(Str("Course"), Chars(<<"H">>), DateStr(2024, 3, 9), Str("Alice"),
          DateStr(2024, 2, 29), EmptyStr, Chars(<<"5">>)),
      Row(Str("Course"), Chars(<<"H">>), DateStr(2024, 3, 9), Str("Alice"),
          EmptyStr, EmptyStr, Chars(<<"x">>)),
      Row(Str("Course"), Chars(<<"H">>), DateStr(2024, 3, 9), Str("Alice"),
          EmptyStr, EmptyStr, Chars(<<"0">>)),
      Row(Str("Course"), Chars(<<"B", "C", "E", "P", "1">>), DateStr(2024, 3, 9),
          Str("Alice"), EmptyStr, EmptyStr, Chars(<<"5">>)) }

\* main, with a preference file or none, on every calendar of at most
\* MaxRows rows, with the -reg flag and without
Init ==
    /\ pc = "read_not_interested"
    /\ out = <<>>
    /\ file_exists \in BOOLEAN
    /\ data \in (IF file_exists THEN MainPrefs ELSE {<<>>})
    /\ PrefsIdle
    /\ csv \in { <<Headers>> \o rows : rows \in SeqsUpTo(MainRows, MaxRows) }
    /\ CsvIdle
    /\ events = <<>>
    /\ FilterIdle
    /\ by_open \in BOOLEAN
    /\ PresIdle

Next ==
    \/ NextPrefs
    \/ MainReadCsv
    \/ NextCsv
    \/ MainFilter
    \/ MainNoFilter
    \/ NextFilter
    \/ MainFiltered
    \/ NextPresent
    \/ MainReturn

Spec == Init /\ [][Next]_vars

\* C2: over the whole run, no event that starts on a loaded blackout date is
\* printed, whether or not the preference file dismisses any activity.
C2_NoPrintedEventOnBlackoutDate ==
    \A i \in 1..Len(out) :
        out[i].kind = "event" => out[i].ev[START_DATE] \notin bad_dates

=============================================================================
